---- MODULE Spec2Model ----
(***************************************************************************)
(* HERR (High Error Rate Routing), src/HERR.py: a swap based, noise aware  *)
(* router.  The model follows HERR.run layer by layer, with the loop of    *)
(* find_better_link unrolled one candidate edge per step.                  *)
(* The path and accuracy functions of HERR, and extractCxErrorMap of       *)
(* src/BAROQUE_IBM_Interface.py, are also applied on their own: `call`     *)
(* holds the function and its arguments, `ret` what it returned.           *)
(*                                                                         *)
(* Physical qubits are 0..n-1, logical qubits are the indices 0..nq-1 of   *)
(* the register 'q'.  A link is the sorted pair <<a, b>>, a < b.           *)
(*                                                                         *)
(* A link weight or an accuracy is <<h, s, f>>: f is the Python float, an  *)
(* IEEE-754 binary64 number, that the code holds, and h and s count the    *)
(* factors 0.5 and 0.999 it was multiplied from, so that the real product  *)
(* is 0.5^h * 0.999^s.  Products and cubes are rounded as the code rounds  *)
(* them, and u > v compares the floats; ** 3 is the pow of the C library,  *)
(* which returns one of the two floats next to a cube that is no float,    *)
(* which of the two depending on the operand.                              *)
(*                                                                         *)
(* src/BAROQUE_Herr_Wrapper.py builds the router and the noise graph,      *)
(* runs it and returns the routed program through qiskit: dag_to_circuit   *)
(* and transpile are library calls, held as the calls that were made.      *)
(***************************************************************************)
EXTENDS Integers, Sequences, FiniteSets, TLC

VARIABLES
    couplingMap,      \* self.couplingMap: [n, links]
    qubitAccuracy,    \* self.qubitAccuracy: link -> weight
    initial_layout,   \* self.initial_layout: None or a tuple logical -> physical
    searchDepth,      \* self.searchDepth
    tieCM,            \* how couplingMap.shortest_undirected_path breaks ties
    tieNX,            \* how nx.shortest_path breaks ties
    intIdentity,      \* whether two equal ints above 256 are one object
    powRounding,      \* weight -> which float next to its inexact cube pow returns
    nq,               \* len(dag.qubits)
    maxLayers,        \* number of layers the input program has at most
    dag,              \* the layers dag.serial_layers() has yielded so far
    pc,               \* position in HERR.run
    error,            \* the exception that ended the run, or "none"
    current_layout,   \* [v2p, p2v], the two dictionaries of the qiskit Layout
    new_dag,          \* the routed program built so far
    physQArgs,        \* physical endpoints of the operation being routed
    bestEdge,         \* find_better_link: bestEdge
    bestEdgeAccuracy, \* find_better_link: bestEdgeAccuracy
    foundBetterEdge,  \* find_better_link: foundBetterEdge
    todo,             \* find_better_link: edges of uniqueEdges not yet visited
    baseline,         \* bestEdgeAccuracy before the first candidate
    layoutAtInspect,  \* current_layout when the operation was inspected
    outAtInspect,     \* new_dag when the operation was inspected
    branch,           \* the branch taken for the last operation routed
    call,             \* a function applied on its own: [fn, args], or None
    ret               \* what that application returned

vars == <<couplingMap, qubitAccuracy, initial_layout, searchDepth, tieCM, tieNX,
          intIdentity, powRounding, nq, maxLayers, dag, pc, error, current_layout, new_dag,
          physQArgs, bestEdge,
          bestEdgeAccuracy, foundBetterEdge, todo, baseline, layoutAtInspect,
          outAtInspect, branch, call, ret>>

----------------------------------------------------------------------------
(* Bounds *)

\* longest input program, in layers (serial_layers yields one operation each)
MaxGates == 1
\* longest input program of the runs on the three-qubit devices (SpecSeq)
MaxLayers == 2
\* largest searchDepth tried
MaxDepth == 2

\* Python's None (a path always has two qubits or more, a layout one or more)
None == <<>>
\* the distance of two qubits that no path joins
Inf == 10 * 10

----------------------------------------------------------------------------
(* Topology graph: CouplingMap.distance, shortest paths *)

Min2(a, b) == IF a <= b THEN a ELSE b
Max2(a, b) == IF a <= b THEN b ELSE a

\* tuple(sorted(edge))
SortedEdge(a, b) == <<Min2(a, b), Max2(a, b)>>

IsLink(links, a, b) == SortedEdge(a, b) \in links

NodesOf(links) == {e[1] : e \in links} \cup {e[2] : e \in links}

Neighbours(links, v) == {w \in NodesOf(links) : IsLink(links, v, w)}

RECURSIVE BfsDistance(_, _, _, _, _)
BfsDistance(links, frontier, seen, target, k) ==
    IF target \in frontier THEN k
    ELSE LET next == UNION {Neighbours(links, v) : v \in frontier} \ seen
         IN  IF next = {} THEN Inf
             ELSE BfsDistance(links, next, seen \cup next, target, k + 1)

\* graph distance in the undirected graph `links`; Inf when unreachable
Distance(links, a, b) == BfsDistance(links, {a}, {a}, b, 0)

RECURSIVE ShortestPaths(_, _, _, _)
\* all paths from a to b that have exactly d = Distance(links, a, b) links
ShortestPaths(links, a, b, d) ==
    IF d = 0 THEN {<<a>>}
    ELSE UNION {{<<a>> \o p : p \in ShortestPaths(links, w, b, d - 1)} :
                w \in {x \in Neighbours(links, a) : Distance(links, x, b) = d - 1}}

\* p comes before q in the lexicographic order (p, q of the same length)
LexLess(p, q) ==
    \E i \in 1..Len(p) : p[i] < q[i] /\ \A j \in 1..(i - 1) : p[j] = q[j]

\* one shortest path out of the set, by the tie-break policy
PickPath(paths, tie) ==
    IF tie = "lo"
    THEN CHOOSE p \in paths : \A q \in paths : q = p \/ LexLess(p, q)
    ELSE CHOOSE p \in paths : \A q \in paths : q = p \/ LexLess(q, p)

\* couplingMap.distance(a, b)
distance(a, b) == Distance(couplingMap.links, a, b)

\* couplingMap.shortest_undirected_path(a, b)
shortest_undirected_path(a, b) ==
    PickPath(ShortestPaths(couplingMap.links, a, b, distance(a, b)), tieCM)

----------------------------------------------------------------------------
(* Reliability model: weights and accuracies *)

\* A Python float is an IEEE-754 binary64 number.  A positive one is held as
\* [e, m]: its value is M * 2 ** (e - 52), where the significand M, an integer
\* from 2 ** 52 below 2 ** 53, is the sequence m of four limbs in base
\* 2 ** 14, least significant first.
LimbBits == 14
LimbBase == 2 ^ LimbBits
Significand == 53

Limb(P, i) == IF i >= 1 /\ i <= Len(P) THEN P[i] ELSE 0

\* the sum of a[i] * b[k + 1 - i] over the limbs i..Len(a) of a
RECURSIVE ColumnSum(_, _, _, _)
ColumnSum(a, b, k, i) ==
    IF i > Len(a) THEN 0
    ELSE a[i] * Limb(b, k + 1 - i) + ColumnSum(a, b, k, i + 1)

\* the limbs of the number whose columns, least significant first, are cols
RECURSIVE Carry(_, _, _)
Carry(cols, i, c) ==
    IF i > Len(cols) THEN <<c>>
    ELSE CHOOSE limbs \in {<<t % LimbBase>> \o Carry(cols, i + 1, t \div LimbBase) :
                              t \in {cols[i] + c}} : TRUE

\* the exact product of two integers given by their limbs
BigMul(a, b) ==
    CHOOSE limbs \in {Carry(cols, 1, 0) :
                        cols \in {[k \in 1..(Len(a) + Len(b) - 1) |->
                                     ColumnSum(a, b, k, 1)]}} : TRUE

\* the number of bits of a positive integer given by its limbs
BitLength(P) ==
    CHOOSE n \in {LimbBits * (top - 1)
                  + (CHOOSE k \in 1..LimbBits : 2 ^ (k - 1) <= P[top] /\ P[top] < 2 ^ k) :
                  top \in {i \in 1..Len(P) : P[i] # 0 /\ \A j \in (i + 1)..Len(P) : P[j] = 0}} :
        TRUE

\* Q + 1 on four limbs
Increment(Q) ==
    LET c1 == IF Q[1] + 1 = LimbBase THEN 1 ELSE 0
        c2 == IF Q[2] + c1 = LimbBase THEN 1 ELSE 0
        c3 == IF Q[3] + c2 = LimbBase THEN 1 ELSE 0
    IN  <<(Q[1] + 1) % LimbBase, (Q[2] + c1) % LimbBase, (Q[3] + c2) % LimbBase, Q[4] + c3>>

\* what is dropped from P below bit q * LimbBits + r is more than half of
\* the last place kept, or is half of it and the last place kept is odd
RoundsUp(P, q, r, odd) ==
    LET d == IF r > 0 THEN Limb(P, q + 1) % (2 ^ r) ELSE Limb(P, q)
        half == IF r > 0 THEN 2 ^ (r - 1) ELSE 2 ^ (LimbBits - 1)
        rest == \E i \in 1..(IF r > 0 THEN q ELSE q - 1) : Limb(P, i) # 0
    IN  \/ d > half
        \/ d = half /\ (rest \/ odd)

\* the four limbs of P from bit q * LimbBits + r upwards
TopLimbs(P, q, r) ==
    <<(Limb(P, q + 1) \div (2 ^ r)) + (Limb(P, q + 2) % (2 ^ r)) * (2 ^ (LimbBits - r)),
      (Limb(P, q + 2) \div (2 ^ r)) + (Limb(P, q + 3) % (2 ^ r)) * (2 ^ (LimbBits - r)),
      (Limb(P, q + 3) \div (2 ^ r)) + (Limb(P, q + 4) % (2 ^ r)) * (2 ^ (LimbBits - r)),
      (Limb(P, q + 4) \div (2 ^ r)) + (Limb(P, q + 5) % (2 ^ r)) * (2 ^ (LimbBits - r))>>

\* something other than zero is dropped from P below bit q * LimbBits + r
Inexact(P, q, r) ==
    \/ r > 0 /\ Limb(P, q + 1) % (2 ^ r) # 0
    \/ \E i \in 1..q : Limb(P, i) # 0

\* P with shift bits dropped: rounded to nearest, ties to even, or to the
\* float below ("down") or above ("up") when P does not fit
Rounded(P, shift, mode) ==
    CHOOSE R \in {IF /\ shift > 0
                     /\ CASE mode = "nearest" ->
                               RoundsUp(P, shift \div LimbBits, shift % LimbBits,
                                        Q[1] % 2 = 1)
                          [] mode = "up" ->
                               Inexact(P, shift \div LimbBits, shift % LimbBits)
                          [] OTHER -> FALSE
                  THEN Increment(Q) ELSE Q :
                  Q \in {TopLimbs(P, shift \div LimbBits, shift % LimbBits)}} : TRUE

\* the float for P * 2 ** (e - 52), P an integer of 53 bits or more given
\* by its limbs.  A value bound by \in is computed once, here and below.
RoundToFloat(P, e, mode) ==
    CHOOSE f \in {IF R[2][4] = 2 ^ (Significand - 3 * LimbBits)
                  THEN [e |-> e + R[1] + 1,
                        m |-> <<0, 0, 0, 2 ^ (Significand - 1 - 3 * LimbBits)>>]
                  ELSE [e |-> e + R[1], m |-> R[2]] :
                  R \in {<<shift, Rounded(P, shift, mode)>> :
                          shift \in {BitLength(P) - Significand}}} : TRUE

\* 2 ** (-k), and 0.999, the float nearest to 999 / 1000
PowerOfTwo(k) == [e |-> -k, m |-> <<0, 0, 0, 2 ^ (Significand - 1 - 3 * LimbBits)>>]
Float999 == [e |-> -1, m |-> <<1835, 9306, 15597, 2045>>]

\* x * y: the float nearest to the exact product
RoundedProduct(x, y) ==
    CHOOSE f \in {RoundToFloat(P, x.e + y.e - (Significand - 1), "nearest") :
                    P \in {BigMul(x.m, y.m)}} : TRUE

\* x ** 3 is the pow of the C library, which is not correctly rounded: a
\* cube that is a float is returned as it is, and for any other cube pow
\* returns the float below it or the float above it (0.9989 ** 3 is the one
\* below, although the one above is nearer, and 0.999 ** 3 the one above).
PowRoundings == {"down", "up"}

Cube(x, mode) ==
    CHOOSE f \in {RoundToFloat(P, 3 * x.e - 2 * (Significand - 1), mode) :
                    P \in {BigMul(BigMul(x.m, x.m), x.m)}} : TRUE

\* the floats of a set of weights whose cube is not a float
InexactCubes(weights) == {w[3] : w \in {v \in weights : Cube(v[3], "down") # Cube(v[3], "up")}}

\* the float pow returns for x ** 3, x a link weight: the direction held for
\* x where the cube is not a float; a cube that is a float is not rounded
PowRounding(x) == IF x \in DOMAIN powRounding THEN powRounding[x] ELSE "down"

RoundedCube(x) == Cube(x, PowRounding(x))

\* The products a run computes most often are computed once and held in
\* tables.  An accuracy is 1.0 multiplied by the cube of one weight after
\* the other, or a weight multiplied by one such chain and then by another;
\* a factor that is a power of two scales a product exactly, so the
\* significand of a product depends only on the significands of its factors.
MostSwaps == 2 * 3

CubeTable ==
    <<>> @@ [p \in PowRoundings \X {PowerOfTwo(0).m, Float999.m} |->
                Cube([e |-> 0, m |-> p[2]], p[1])]

\* the significand of 1.0 multiplied k times by 0.999 ** 3
ChainFloat[mode \in PowRoundings, k \in 0..MostSwaps] ==
    IF k = 0 THEN PowerOfTwo(0).m
    ELSE CHOOSE m \in {RoundedProduct([e |-> 0, m |-> c], Cube(Float999, mode)).m :
                         c \in {ChainFloat[mode, k - 1]}} : TRUE

ProductTable ==
    CHOOSE t \in {<<>> @@ [p \in (chain \cup {RoundedProduct(Float999, [e |-> 0, m |-> c]).m :
                                                c \in chain})
                                 \X (chain \cup {Cube(Float999, mode).m :
                                                  mode \in PowRoundings}) |->
                              RoundedProduct([e |-> 0, m |-> p[1]], [e |-> 0, m |-> p[2]])] :
                    chain \in {{ChainFloat[mode, k] :
                                 mode \in PowRoundings, k \in 0..MostSwaps}}} : TRUE

\* x * y
FloatMul(x, y) ==
    CHOOSE f \in {IF p \in DOMAIN t
                  THEN [e |-> x.e + y.e + t[p].e, m |-> t[p].m]
                  ELSE RoundedProduct(x, y) :
                  t \in {ProductTable}, p \in {<<x.m, y.m>>}} : TRUE

\* x ** 3
FloatCube(x) ==
    CHOOSE f \in {IF p \in DOMAIN t
                  THEN [e |-> 3 * x.e + t[p].e, m |-> t[p].m]
                  ELSE RoundedCube(x) :
                  t \in {CubeTable}, p \in {<<PowRounding(x), x.m>>}} : TRUE

\* x > y for two positive floats
FloatGreater(x, y) ==
    \/ x.e > y.e
    \/ /\ x.e = y.e
       /\ \E i \in 1..4 : x.m[i] > y.m[i] /\ \A j \in (i + 1)..4 : x.m[j] = y.m[j]

\* An accuracy is <<h, s, f>>: f is the float the code holds; h and s are
\* the numbers of factors 0.5 and 0.999 that were multiplied to make it,
\* so that the exact product is 0.5 ** h * 0.999 ** s.
AccOne == <<0, 0, PowerOfTwo(0)>>
\* the int 0 that calc_path_accuracy returns for a rejected candidate
AccZero == <<-1, -1, [e |-> 0, m |-> <<0, 0, 0, 0>>]>>

\* the exact product an accuracy stands for
Exact(u) == <<u[1], u[2]>>

\* u * v; each operand is evaluated once
AccMul(u, v) ==
    CHOOSE r \in {<<p[1][1] + p[2][1], p[1][2] + p[2][2], FloatMul(p[1][3], p[2][3])>> :
                    p \in {<<u, v>>}} : TRUE

\* a swap counted as two elementary operations
AccSquare(w) ==
    CHOOSE r \in {<<2 * x[1], 2 * x[2], FloatMul(x[3], x[3])>> : x \in {w}} : TRUE

\* linkAccuracy ** 3
AccCube(w) ==
    CHOOSE r \in {<<3 * x[1], 3 * x[2], FloatCube(x[3])>> : x \in {w}} : TRUE

\* a comparison the wrong way round
AccGreaterReversed(u, v) ==
    \/ u = AccZero
    \/ FloatGreater(v[3], u[3])

\* a comparison that lets a tie win
AccGreaterOrEqual(u, v) ==
    /\ u # AccZero
    /\ ~FloatGreater(v[3], u[3])

\* newLinkAccuracy > bestEdgeAccuracy (bestEdgeAccuracy is never 0)
AccGreater(u, v) ==
    /\ u # AccZero
    /\ FloatGreater(u[3], v[3])

\* self.qubitAccuracy.edges[a, b]['weight']
weight(a, b) == qubitAccuracy[SortedEdge(a, b)]

RECURSIVE SwapChainAccuracy(_, _, _)
\* accuracy = 1.0, then accuracy = accuracy * (linkAccuracy ** 3) for the
\* links path[k], path[k+1], k = from..upto, in this order
SwapChainAccuracy(path, from, upto) ==
    IF from > upto THEN AccOne
    ELSE AccMul(SwapChainAccuracy(path, from, upto - 1),
                AccCube(weight(path[upto], path[upto + 1])))

\* the links of the path that calc_shortest_path_accuracy multiplies:
\* range(len(path) - 2), in the 1-based indices of the model
BaselineLastSwap(path) == Len(path) - 2

calc_shortest_path_accuracy(qubit1, qubit2) ==
    LET path == shortest_undirected_path(qubit1, qubit2)
    IN  SwapChainAccuracy(path, 1, BaselineLastSwap(path))

----------------------------------------------------------------------------
(* Path and accuracy engine *)

\* src/HERR.py find_path_excluding: the shortest path from sourceQubit to
\* destQubit in the coupling graph without exQubit, or None
find_path_excluding(sourceQubit, destQubit, exQubit) ==
    IF sourceQubit = destQubit THEN None
    ELSE LET subGraphEdges == {e \in couplingMap.links : exQubit # e[1] /\ exQubit # e[2]}
             d == Distance(subGraphEdges, sourceQubit, destQubit)
         IN  IF /\ sourceQubit \in NodesOf(subGraphEdges)
                /\ destQubit \in NodesOf(subGraphEdges)
                /\ d # Inf
             THEN PickPath(ShortestPaths(subGraphEdges, sourceQubit, destQubit, d), tieNX)
             ELSE None

\* the second and third comparisons of find_shortest_path (lines 223-231),
\* which overwrite what the first one (lines 216-221) assigned
AssignBothMoving(q0Paths, q1Paths) ==
    LET first == IF Len(q0Paths[1]) <= Len(q1Paths[1])
                 THEN <<q0Paths[1], q1Paths[2]>>
                 ELSE <<q0Paths[2], q1Paths[1]>>
        second == IF Len(q0Paths[2]) < Len(q0Paths[1]) /\ Len(q0Paths[2]) < Len(q1Paths[2])
                  THEN <<q0Paths[2], first[2]>>
                  ELSE <<q0Paths[1], first[2]>>
    IN  IF Len(q1Paths[2]) < Len(q1Paths[1]) /\ Len(q1Paths[2]) < Len(q0Paths[2])
        THEN <<second[1], q1Paths[2]>>
        ELSE <<second[1], q1Paths[1]>>

\* the ints of which CPython keeps one object each
SmallInts == -5..256

\* a is not b, for two ints: two different ints are two objects, two equal
\* small ints are one object, and two equal ints above 256 are one object
\* or two
IsNot(a, b) == a # b \/ (a \notin SmallInts /\ intIdentity = "separate")

\* lines 232-238: only source 0 is off the destination link
AssignFirstMoving(sourceQubits, destQubit, q0Paths) ==
    IF IsNot(sourceQubits[2], destQubit[1]) THEN <<q0Paths[2], None>> ELSE <<q0Paths[1], None>>

\* lines 239-245: only source 1 is off the destination link
AssignSecondMoving(sourceQubits, destQubit, q1Paths) ==
    IF IsNot(sourceQubits[1], destQubit[1]) THEN <<None, q1Paths[1]>> ELSE <<None, q1Paths[2]>>

\* src/HERR.py find_shortest_path: [err, qubitPath]; len(None) is a TypeError
find_shortest_path(sourceQubits, destQubit) ==
    LET s0 == sourceQubits[1]
        s1 == sourceQubits[2]
        dests == {destQubit[1], destQubit[2]}
        q0Paths == << IF destQubit[1] # s1 THEN find_path_excluding(s0, destQubit[1], s1) ELSE None,
                      IF destQubit[2] # s1 THEN find_path_excluding(s0, destQubit[2], s1) ELSE None >>
        q1Paths == << IF destQubit[1] # s0 THEN find_path_excluding(s1, destQubit[1], s0) ELSE None,
                      IF destQubit[2] # s0 THEN find_path_excluding(s1, destQubit[2], s0) ELSE None >>
    IN  IF s0 \notin dests /\ s1 \notin dests
        THEN IF None \in {q0Paths[1], q0Paths[2], q1Paths[1], q1Paths[2]}
             THEN [err |-> "TypeError", qubitPath |-> <<None, None>>]
             ELSE [err |-> "none", qubitPath |-> AssignBothMoving(q0Paths, q1Paths)]
        ELSE IF s0 \notin dests
        THEN [err |-> "none", qubitPath |-> AssignFirstMoving(sourceQubits, destQubit, q0Paths)]
        ELSE IF s1 \notin dests
        THEN [err |-> "none", qubitPath |-> AssignSecondMoving(sourceQubits, destQubit, q1Paths)]
        ELSE [err |-> "none", qubitPath |-> <<None, None>>]

\* the accuracy of one swap chain: range(0, len(path) - 1)
QubitPathAccuracy(path) ==
    IF path = None THEN AccOne ELSE SwapChainAccuracy(path, 1, Len(path) - 1)

\* src/HERR.py calc_path_accuracy: [err, acc]
calc_path_accuracy(sourceQubits, destQubit) ==
    LET r == find_shortest_path(sourceQubits, destQubit)
    IN  IF r.err # "none" THEN [err |-> r.err, acc |-> AccZero]
        ELSE IF r.qubitPath[1] = None /\ r.qubitPath[2] = None
        THEN [err |-> "none", acc |-> AccZero]
        ELSE [err |-> "none",
              acc |-> AccMul(AccMul(weight(destQubit[1], destQubit[2]),
                                    QubitPathAccuracy(r.qubitPath[1])),
                             QubitPathAccuracy(r.qubitPath[2]))]

\* find_better_link lines 144-147
BaselineAccuracy(qubit1, qubit2) ==
    IF IsLink(couplingMap.links, qubit1, qubit2)
    THEN weight(qubit1, qubit2)
    ELSE calc_shortest_path_accuracy(qubit1, qubit2)

\* find_better_link lines 153-156
WithinDepth(qubit1, qubit2, edge, depth) ==
    /\ distance(qubit1, edge[1]) <= depth
    /\ distance(qubit1, edge[2]) <= depth
    /\ distance(qubit2, edge[1]) <= depth
    /\ distance(qubit2, edge[2]) <= depth

\* lines 153-162: one iteration of the loop; st holds bestEdge,
\* bestEdgeAccuracy, foundBetterEdge and the exception raised, if any
ExamineLink(qubit1, qubit2, edge, depth, st) ==
    IF ~WithinDepth(qubit1, qubit2, edge, depth) THEN st
    ELSE LET r == calc_path_accuracy(st.bestEdge, edge)
         IN  IF r.err # "none" THEN [st EXCEPT !.err = r.err]
             ELSE IF AccGreater(r.acc, st.bestEdgeAccuracy)
             THEN [st EXCEPT !.bestEdgeAccuracy = r.acc,
                             !.bestEdge = edge,
                             !.foundBetterEdge = TRUE]
             ELSE st

\* lines 151-163: the loop over uniqueEdges, visited in the order `order`;
\* the state after each iteration is computed once and handed on
RECURSIVE SearchLinks(_, _, _, _, _)
SearchLinks(qubit1, qubit2, order, depth, st) ==
    IF order = <<>> \/ st.err # "none" THEN st
    ELSE CHOOSE result \in
             {SearchLinks(qubit1, qubit2, Tail(order), depth, next) :
                 next \in {ExamineLink(qubit1, qubit2, Head(order), depth, st)}} : TRUE

\* lines 126-166 as one call; `order` is the order in which the set
\* uniqueEdges yields its elements
find_better_link(qubit1, qubit2, order, depth) ==
    CHOOSE result \in
        {[err |-> st.err,
          edge |-> IF st.err = "none" /\ st.foundBetterEdge THEN st.bestEdge ELSE None] :
            st \in {SearchLinks(qubit1, qubit2, order, depth,
                                [err |-> "none",
                                 bestEdge |-> <<qubit1, qubit2>>,
                                 bestEdgeAccuracy |-> BaselineAccuracy(qubit1, qubit2),
                                 foundBetterEdge |-> FALSE])}} : TRUE

----------------------------------------------------------------------------
(* Layout: qiskit.transpiler.layout.Layout as HERR.run uses it *)

DictPop(d, k) == [x \in DOMAIN d \ {k} |-> d[x]]
DictSet(d, k, v) == [x \in DOMAIN d \cup {k} |-> IF x = k THEN v ELSE d[x]]

\* Layout.generate_trivial_layout(canonical_register)
TrivialLayout(n) == [v2p |-> [v \in 0..(n - 1) |-> v], p2v |-> [p \in 0..(n - 1) |-> p]]

\* Layout.__setitem__ for a physical key: self[physical] = virtual
LayoutSetItem(L, physical, virtual) ==
    LET v2p1 == DictPop(L.v2p, virtual)
        p2v1 == IF virtual \in DOMAIN L.v2p THEN DictPop(L.p2v, L.v2p[virtual]) ELSE L.p2v
        p2v2 == DictPop(p2v1, physical)
        v2p2 == IF physical \in DOMAIN p2v1 THEN DictPop(v2p1, p2v1[physical]) ELSE v2p1
    IN  [v2p |-> DictSet(v2p2, virtual, physical), p2v |-> DictSet(p2v2, physical, virtual)]

\* Layout.swap(left, right), both physical and both holding a logical qubit
LayoutSwap(L, left, right) ==
    LET temp == L.p2v[left]
        L1 == LayoutSetItem(L, left, L.p2v[right])
    IN  LayoutSetItem(L1, right, temp)

\* every swap taken from the head of the path: (path[0], path[swap + 1])
SwapPairsFromHead(path, count) == [k \in 1..count |-> <<path[1], path[k + 1]>>]

\* the pairs (path[swap], path[swap + 1]) for swap in range(count)
SwapPairs(path, count) == [k \in 1..count |-> <<path[k], path[k + 1]>>]

\* number of swaps of a chain of find_shortest_path: range(0, len(path) - 1)
ChainLength(path) == IF path = None THEN 0 ELSE Len(path) - 1

\* a direct chain that swaps along the whole path
DirectLengthWholePath(path) == Len(path) - 1

\* number of swaps of the direct chain: range(len(path) - 2)
DirectLength(path) == Len(path) - 2

RECURSIVE ApplySwaps(_, _, _)
\* current_layout.swap on every pair from index k on
ApplySwaps(L, pairs, k) ==
    IF k > Len(pairs) THEN L
    ELSE ApplySwaps(LayoutSwap(L, pairs[k][1], pairs[k][2]), pairs, k + 1)

\* current_layout[wire] raises KeyError for a physical qubit that holds nothing
AllOccupied(L, pairs) ==
    \A k \in 1..Len(pairs) : pairs[k][1] \in DOMAIN L.p2v /\ pairs[k][2] \in DOMAIN L.p2v

----------------------------------------------------------------------------
(* Routed program *)

\* the operation composed with its wires in the opposite order
EmitOpReversed(L, gate) ==
    [kind |-> "op", qargs |-> gate,
     wires |-> [i \in 1..Len(gate) |-> L.v2p[gate[Len(gate) + 1 - i]]]]

\* an operation of the input composed onto new_dag with
\* order = current_layout.reorder_bits(new_dag.qubits): lines 121-122
EmitOp(L, gate) ==
    [kind |-> "op", qargs |-> gate, wires |-> [i \in 1..Len(gate) |-> L.v2p[gate[i]]]]

\* the layer composed in front of new_dag instead of behind it
ComposeLayerInFront(out, L, gate) == <<EmitOp(L, gate)>> \o out

ComposeLayer(out, L, gate) == Append(out, EmitOp(L, gate))

\* a SwapGate applied to the logical qubits found on the two wires and
\* composed with `order`: lines 76-85 and 105-115
SwapInstruction(L, pair) ==
    [kind |-> "swap", qargs |-> None,
     wires |-> <<L.v2p[L.p2v[pair[1]]], L.v2p[L.p2v[pair[2]]]>>]

\* the swaps composed in the opposite order
ComposeSwapsReversed(out, L, pairs) ==
    out \o [k \in 1..Len(pairs) |-> SwapInstruction(L, pairs[Len(pairs) + 1 - k])]

ComposeSwaps(out, L, pairs) == out \o [k \in 1..Len(pairs) |-> SwapInstruction(L, pairs[k])]

TwoQubitOps(n) == {<<a, b>> : a \in 0..(n - 1), b \in 0..(n - 1)} \ {<<a, a>> : a \in 0..(n - 1)}
OneQubitOps(n) == {<<a>> : a \in 0..(n - 1)}

----------------------------------------------------------------------------
(* Devices and programs the runs are drawn from *)

Line3 == [n |-> 3, links |-> {<<0, 1>>, <<1, 2>>}]
Complete3 == [n |-> 3, links |-> {<<0, 1>>, <<0, 2>>, <<1, 2>>}]
Ring4 == [n |-> 4, links |-> {<<0, 1>>, <<1, 2>>, <<2, 3>>, <<0, 3>>}]
Paw4 == [n |-> 4, links |-> {<<0, 1>>, <<0, 2>>, <<1, 2>>, <<2, 3>>}]
Line4 == [n |-> 4, links |-> {<<0, 1>>, <<1, 2>>, <<2, 3>>}]
Line5 == [n |-> 5, links |-> {<<0, 1>>, <<1, 2>>, <<2, 3>>, <<3, 4>>}]
Ring5 == [n |-> 5, links |-> {<<0, 1>>, <<1, 2>>, <<2, 3>>, <<3, 4>>, <<0, 4>>}]

\* three of the qubits of a device of 303, joined in a triangle
Triangle300 == [n |-> 303, links |-> {<<300, 301>>, <<300, 302>>, <<301, 302>>}]

Topologies == {Line3, Complete3, Ring4, Paw4}

\* 1.0, 0.999 and 0.5
WeightOne == <<0, 0, PowerOfTwo(0)>>
WeightStrong == <<0, 1, Float999>>
WeightWeak == <<1, 0, PowerOfTwo(1)>>
WeightSet == {WeightOne, WeightStrong, WeightWeak}

\* the weights tried on a topology: all three on three qubits, the two of
\* the weak-link scenario on four
WeightsOf(t) == IF t.n = 3 THEN WeightSet ELSE {WeightStrong, WeightWeak}

\* some pair of qubits is joined by more than one shortest path
HasTies(links) ==
    \E a \in NodesOf(links), b \in NodesOf(links) :
        /\ Distance(links, a, b) # Inf
        /\ Cardinality(ShortestPaths(links, a, b, Distance(links, a, b))) > 1

\* tie-break policies of a shortest-path search: the lexicographically
\* first or last of the shortest paths; one policy where no search has a tie
TiePolicies(graphs) == IF \E g \in graphs : HasTies(g) THEN {"lo", "hi"} ELSE {"lo"}

\* pow rounds the cube of each weight on its own: one direction for every
\* weight whose cube is not a float
PowPolicies(weights) == [InexactCubes(weights) -> PowRoundings]

\* whether equal ints are one object matters where a qubit index is above 256
IdentityPolicies(links) ==
    IF \E q \in NodesOf(links) : q \notin SmallInts THEN {"shared", "separate"} ELSE {"shared"}

\* the graphs find_path_excluding searches
ReducedGraphs(links) ==
    {{e \in links : ex # e[1] /\ ex # e[2]} : ex \in NodesOf(links)}

TypeOK ==
    /\ pc \in {"wrapper", "start", "layer", "search", "done", "failed", "returned"}
    /\ error \in {"none", "TranspilerError", "TypeError", "KeyError", "IndexError"}
    /\ foundBetterEdge \in BOOLEAN
    /\ searchDepth \in Nat
    /\ Len(dag) <= maxLayers
    /\ intIdentity \in {"shared", "separate"}
    /\ \A x \in DOMAIN powRounding : powRounding[x] \in PowRoundings

\* the state after HERR(couplingMap, qubitAccuracy, initial_layout, searchDepth)
\* and before run(dag)
Constructed(topologies, widths, layouts, layers) ==
    /\ \E t \in topologies :
          /\ couplingMap = t
          /\ qubitAccuracy \in [t.links -> WeightsOf(t)]
          /\ nq \in {t.n + w : w \in widths}
          /\ tieCM \in TiePolicies({t.links})
          /\ tieNX \in TiePolicies(ReducedGraphs(t.links))
          /\ intIdentity \in IdentityPolicies(t.links)
          /\ powRounding \in PowPolicies({qubitAccuracy[l] : l \in t.links})
    /\ initial_layout \in layouts
    /\ searchDepth \in 0..MaxDepth
    /\ maxLayers = layers
    /\ dag = <<>>
    /\ pc = "start"
    /\ error = "none"
    /\ current_layout = None
    /\ new_dag = <<>>
    /\ physQArgs = None
    /\ bestEdge = None
    /\ bestEdgeAccuracy = AccOne
    /\ foundBetterEdge = FALSE
    /\ todo = {}
    /\ baseline = AccOne
    /\ layoutAtInspect = None
    /\ outAtInspect = <<>>
    /\ branch = "none"

\* no function is applied on its own
NoCall == call = None /\ ret = None

\* every device, programs of as many qubits as the device, one fewer and one
\* more, no starting layout
Init == Constructed(Topologies, {-1, 0, 1}, {None}, MaxGates) /\ NoCall

\* a starting layout: logical qubit i on physical qubit 2 - i
Reversed3 == <<2, 1, 0>>

\* the three-qubit devices, longer programs, with and without a starting layout
InitSeq == Constructed({Line3, Complete3}, {0}, {None, Reversed3}, MaxLayers) /\ NoCall

\* the variables of a function applied on its own
unit == <<call, ret>>

config == <<couplingMap, qubitAccuracy, initial_layout, searchDepth, tieCM, tieNX,
            intIdentity, powRounding, nq, maxLayers>>
search == <<physQArgs, bestEdge, bestEdgeAccuracy, foundBetterEdge, todo, baseline,
            layoutAtInspect, outAtInspect>>

router == <<dag, pc, error, current_layout, new_dag, search, branch>>

\* the run ends with an exception: nothing is returned
Raise(exc) ==
    /\ pc' = "failed"
    /\ error' = exc

\* the width check off by one
TooManyQubitsOffByOne(qubits, physical_qubits) == qubits > physical_qubits + 1

\* line 45
TooManyQubits(qubits, physical_qubits) == qubits > physical_qubits

\* lines 49-51: the layout the run starts from
StartingLayout(supplied, n) == TrivialLayout(n)

\* lines 40-51
Start ==
    /\ pc = "start"
    /\ IF TooManyQubits(nq, couplingMap.n)
       THEN /\ Raise("TranspilerError")
            /\ UNCHANGED current_layout
       ELSE /\ current_layout' = StartingLayout(initial_layout, nq)
            /\ pc' = "layer"
            /\ UNCHANGED error
    /\ UNCHANGED <<config, unit, dag, new_dag, search, branch>>

\* lines 57-62 and 140-150: the next layer holds a two-qubit operation
InspectOperation ==
    /\ pc = "layer"
    /\ Len(dag) < maxLayers
    /\ \E gate \in TwoQubitOps(nq) :
          LET p == <<current_layout.v2p[gate[1]], current_layout.v2p[gate[2]]>>
          IN  /\ dag' = Append(dag, gate)
              /\ physQArgs' = p
              /\ baseline' = BaselineAccuracy(p[1], p[2])
              /\ bestEdgeAccuracy' = BaselineAccuracy(p[1], p[2])
              /\ bestEdge' = p
    /\ foundBetterEdge' = FALSE
    /\ todo' = couplingMap.links
    /\ layoutAtInspect' = current_layout
    /\ outAtInspect' = new_dag
    /\ branch' = "none"
    /\ pc' = "search"
    /\ UNCHANGED <<config, unit, error, current_layout, new_dag>>

\* lines 151-163: one iteration of the loop over uniqueEdges, a set
ExamineEdge ==
    /\ pc = "search"
    /\ \E edge \in todo :
          /\ todo' = todo \ {edge}
          /\ IF WithinDepth(physQArgs[1], physQArgs[2], edge, searchDepth)
             THEN LET r == calc_path_accuracy(bestEdge, edge)
                  IN  IF r.err # "none"
                      THEN /\ Raise(r.err)
                           /\ UNCHANGED <<bestEdge, bestEdgeAccuracy, foundBetterEdge>>
                      ELSE IF AccGreater(r.acc, bestEdgeAccuracy)
                      THEN /\ bestEdgeAccuracy' = r.acc
                           /\ bestEdge' = edge
                           /\ foundBetterEdge' = TRUE
                           /\ UNCHANGED <<pc, error>>
                      ELSE UNCHANGED <<pc, error, bestEdge, bestEdgeAccuracy, foundBetterEdge>>
             ELSE UNCHANGED <<pc, error, bestEdge, bestEdgeAccuracy, foundBetterEdge>>
    /\ UNCHANGED <<config, unit, dag, current_layout, new_dag, physQArgs, baseline,
                   layoutAtInspect, outAtInspect, branch>>

\* the layer composed with the layout as it was before the swaps
RouteWithStaleLayout(pairs, name) ==
    IF AllOccupied(current_layout, pairs)
    THEN /\ current_layout' = ApplySwaps(current_layout, pairs, 1)
         /\ new_dag' = ComposeLayer(ComposeSwaps(new_dag, current_layout, pairs),
                                    current_layout, dag[Len(dag)])
         /\ branch' = name
         /\ pc' = "layer"
         /\ UNCHANGED error
    ELSE /\ Raise("KeyError")
         /\ UNCHANGED <<current_layout, new_dag, branch>>

\* swaps appended to new_dag, applied to the layout, then the layer composed
RouteWith(pairs, name) ==
    IF AllOccupied(current_layout, pairs)
    THEN LET L == ApplySwaps(current_layout, pairs, 1)
         IN  /\ current_layout' = L
             /\ new_dag' = ComposeLayer(ComposeSwaps(new_dag, current_layout, pairs),
                                        L, dag[Len(dag)])
             /\ branch' = name
             /\ pc' = "layer"
             /\ UNCHANGED error
    ELSE /\ Raise("KeyError")
         /\ UNCHANGED <<current_layout, new_dag, branch>>

\* lines 63-91 and 121-122
ApplyBetterLink ==
    /\ pc = "search"
    /\ todo = {}
    /\ foundBetterEdge
    /\ LET r == find_shortest_path(physQArgs, bestEdge)
           swapPath == r.qubitPath
       IN  IF r.err # "none"
           THEN /\ Raise(r.err)
                /\ UNCHANGED <<current_layout, new_dag, branch>>
           ELSE RouteWith(SwapPairs(swapPath[1], ChainLength(swapPath[1]))
                          \o SwapPairs(swapPath[2], ChainLength(swapPath[2])), "better")
    /\ UNCHANGED <<config, unit, dag, search>>

\* line 93
NeedsDirectSwap(p0, p1) == distance(p0, p1) # 1

\* lines 92-119 and 121-122
ApplyDirectSwap ==
    /\ pc = "search"
    /\ todo = {}
    /\ ~foundBetterEdge
    /\ NeedsDirectSwap(physQArgs[1], physQArgs[2])
    /\ LET path == shortest_undirected_path(physQArgs[1], physQArgs[2])
       IN  RouteWith(SwapPairs(path, DirectLength(path)), "direct")
    /\ UNCHANGED <<config, unit, dag, search>>

\* lines 92-93 and 121-122: no better link, endpoints adjacent
PassThrough ==
    /\ pc = "search"
    /\ todo = {}
    /\ ~foundBetterEdge
    /\ ~NeedsDirectSwap(physQArgs[1], physQArgs[2])
    /\ RouteWith(<<>>, "pass")
    /\ UNCHANGED <<config, unit, dag, search>>

\* lines 57-59 and 121-122: the layer holds no two-qubit operation
SingleQubitLayer ==
    /\ pc = "layer"
    /\ Len(dag) < maxLayers
    /\ \E op \in OneQubitOps(nq) :
          /\ dag' = Append(dag, op)
          /\ new_dag' = ComposeLayer(new_dag, current_layout, op)
    /\ branch' = "single"
    /\ UNCHANGED <<config, unit, pc, error, current_layout, search>>

\* line 124: serial_layers is exhausted
Return ==
    /\ pc = "layer"
    /\ pc' = "done"
    /\ UNCHANGED <<config, unit, dag, error, current_layout, new_dag, search, branch>>

Next ==
    \/ Start
    \/ InspectOperation
    \/ ExamineEdge
    \/ ApplyBetterLink
    \/ ApplyDirectSwap
    \/ PassThrough
    \/ SingleQubitLayer
    \/ Return

Spec == Init /\ [][Next]_vars

SpecSeq == InitSeq /\ [][Next]_vars

\* devices on which two qubits can be three and four links apart, one layer
InitLong == Constructed({Ring4, Line4, Line5}, {0}, {None}, MaxGates) /\ NoCall

SpecLong == InitLong /\ [][Next]_vars

\* the ring of five qubits with programs of four: physical qubit 4 holds no
\* logical qubit
InitNarrow == Constructed({Ring5}, {-1}, {None}, MaxGates) /\ NoCall

SpecNarrow == InitNarrow /\ [][Next]_vars

----------------------------------------------------------------------------
(* IBM interface: src/BAROQUE_IBM_Interface.py extractCxErrorMap *)

\* longest coupling list
MaxCouplings == 2
\* most gate records in the backend properties
MaxRecords == 2

RECURSIVE FirstMatch(_, _, _)
\* lines 154-157: the value of the first record whose qubits equal `line`,
\* appended to cx_errors; nothing is appended when no record matches
FirstMatch(gates, line, k) ==
    IF k > Len(gates) THEN <<>>
    ELSE IF gates[k].qubits = line THEN <<gates[k].value>>
    ELSE FirstMatch(gates, line, k + 1)

RECURSIVE CxErrorsV1(_, _, _)
\* lines 150-157: the loop over the coupling list, from entry k on
CxErrorsV1(gates, coupling_map, k) ==
    IF k > Len(coupling_map) THEN <<>>
    ELSE FirstMatch(gates, coupling_map[k], 1) \o CxErrorsV1(gates, coupling_map, k + 1)

\* extractCxErrorMap(config, props, coupling_map): [err, value].  The
\* BackendV2 branch reads `backend.target`, and `backend` is the module
\* qiskit.providers.backend there: an AttributeError
extractCxErrorMap(backend_version, gates, coupling_map) ==
    IF backend_version <= 1
    THEN [err |-> "none", value |-> CxErrorsV1(gates, coupling_map, 1)]
    ELSE [err |-> "AttributeError", value |-> <<>>]

\* sequences over S of length at most n
SeqUpTo(S, n) == UNION {[1..k -> S] : k \in 0..n}

BackendVersions == {1, 2}
\* qubit lists of coupling entries and of gate records
QubitPairs == {<<0, 1>>, <<1, 0>>, <<1, 2>>}
\* gate records: item["qubits"], item["parameters"][0]["value"] (an error id)
GateRecords == [qubits : QubitPairs \cup {<<0>>}, value : {1, 2}]

CxCalls ==
    {[fn |-> "extractCxErrorMap", args |-> <<v, g, c>>] :
        v \in BackendVersions, g \in SeqUpTo(GateRecords, MaxRecords),
        c \in SeqUpTo(QubitPairs, MaxCouplings)}

\* a call of extractCxErrorMap about to be made; the router is not running
InitCx ==
    /\ Constructed({Line3}, {0}, {None}, MaxGates)
    /\ qubitAccuracy = [e \in Line3.links |-> WeightOne]
    /\ searchDepth = 0
    /\ call \in CxCalls
    /\ ret = None

\* lines 130-181
ExtractCxErrorMap ==
    /\ call # None
    /\ call.fn = "extractCxErrorMap"
    /\ ret = None
    /\ ret' = extractCxErrorMap(call.args[1], call.args[2], call.args[3])
    /\ UNCHANGED <<config, router, call>>

NextCx == ExtractCxErrorMap

SpecCx == InitCx /\ [][NextCx]_vars

----------------------------------------------------------------------------
(* The path and accuracy functions of src/HERR.py applied on their own *)

UnitTopologies == {Line3, Complete3, Ring4, Paw4, Line4, Ring5, Triangle300}

\* two different physical qubits that have a link, in either order
SourcePairs(links) == {<<a, b>> : a \in NodesOf(links), b \in NodesOf(links)}
                      \ {<<a, a>> : a \in NodesOf(links)}

\* the calls of the four functions on the device cm; a destination is an
\* element of uniqueEdges, the excluded qubit is the other source
UnitCalls(cm) ==
    {[fn |-> f, args |-> <<s, e>>] :
        f \in {"find_shortest_path", "calc_path_accuracy"},
        s \in SourcePairs(cm.links), e \in cm.links}
    \cup {[fn |-> "calc_shortest_path_accuracy", args |-> s] : s \in SourcePairs(cm.links)}
    \cup {[fn |-> "find_path_excluding", args |-> <<s[1], d, s[2]>>] :
            s \in SourcePairs(cm.links), d \in NodesOf(cm.links)}

\* a router has been constructed and one of its functions is about to be
\* called; run is not running
InitUnit ==
    /\ Constructed(UnitTopologies, {0}, {None}, MaxGates)
    /\ searchDepth = 0
    /\ call \in UnitCalls(couplingMap)
    /\ ret = None

Pending(fn) == call # None /\ call.fn = fn /\ ret = None

\* lines 191-246
FindShortestPath ==
    /\ Pending("find_shortest_path")
    /\ ret' = find_shortest_path(call.args[1], call.args[2])
    /\ UNCHANGED <<config, router, call>>

\* lines 260-286
CalcPathAccuracy ==
    /\ Pending("calc_path_accuracy")
    /\ ret' = calc_path_accuracy(call.args[1], call.args[2])
    /\ UNCHANGED <<config, router, call>>

\* lines 248-258
CalcShortestPathAccuracy ==
    /\ Pending("calc_shortest_path_accuracy")
    /\ ret' = [err |-> "none",
               acc |-> calc_shortest_path_accuracy(call.args[1], call.args[2])]
    /\ UNCHANGED <<config, router, call>>

\* lines 168-189
FindPathExcluding ==
    /\ Pending("find_path_excluding")
    /\ ret' = [err |-> "none",
               path |-> find_path_excluding(call.args[1], call.args[2], call.args[3])]
    /\ UNCHANGED <<config, router, call>>

NextUnit ==
    \/ FindShortestPath
    \/ CalcPathAccuracy
    \/ CalcShortestPathAccuracy
    \/ FindPathExcluding

SpecUnit == InitUnit /\ [][NextUnit]_vars

\* the orders in which a set of links can be iterated
IterationOrders(links) ==
    {o \in [1..Cardinality(links) -> links] :
        \A i, j \in 1..Cardinality(links) : i # j => o[i] # o[j]}

LinkCalls(cm) ==
    {[fn |-> "find_better_link", args |-> <<s[1], s[2], o>>] :
        s \in SourcePairs(cm.links), o \in IterationOrders(cm.links)}

\* a router has been constructed with any searchDepth and find_better_link
\* is about to be called on two physical qubits
InitLink ==
    /\ Constructed(Topologies, {0}, {None}, MaxGates)
    /\ call \in LinkCalls(couplingMap)
    /\ ret = None

\* lines 126-166, called as on line 62 with self.searchDepth
FindBetterLink ==
    /\ Pending("find_better_link")
    /\ ret' = find_better_link(call.args[1], call.args[2], call.args[3], searchDepth)
    /\ UNCHANGED <<config, router, call>>

NextLink == FindBetterLink

SpecLink == InitLink /\ [][NextLink]_vars

----------------------------------------------------------------------------
(* The wrapper: src/BAROQUE_Herr_Wrapper.py routeUsingHerr, transpileUsingHerr *)

\* searchDepth when the caller gives none
DefaultSearchDepth == 2

\* CX error rates of a link, as numbers: 0.5 and 0.5 ** 10 (about 0.001)
ErrorHigh == <<1, 0, PowerOfTwo(1)>>
ErrorLow == <<10, 0, PowerOfTwo(10)>>
ErrorRates == {ErrorLow, ErrorHigh}

\* coupling lists as the backend configuration gives them, every link in
\* both directions
Line3List == <<<<0, 1>>, <<1, 0>>, <<1, 2>>, <<2, 1>>>>
Complete3List == <<<<0, 1>>, <<0, 2>>, <<1, 0>>, <<1, 2>>, <<2, 0>>, <<2, 1>>>>
Devices == {[coupling_map |-> Line3, coupling_list |-> Line3List],
            [coupling_map |-> Complete3, coupling_list |-> Complete3List]}

\* list.index: the position of the first element equal to x
ListIndex(list, x) == CHOOSE i \in 1..Len(list) :
                         list[i] = x /\ \A j \in 1..(i - 1) : list[j] # x

\* nx.from_edgelist: an undirected graph, its edges without a weight yet
from_edgelist(coupling_list) ==
    [e \in {SortedEdge(coupling_list[k][1], coupling_list[k][2]) :
                k \in 1..Len(coupling_list)} |-> None]

\* the loop of lines 31-33 from entry k on: the weight of the edge of each
\* entry becomes the element of cx_error_map at the entry's index
RECURSIVE SetWeights(_, _, _, _)
SetWeights(coupling_list, cx_error_map, k, graph) ==
    IF k > Len(coupling_list) THEN [err |-> "none", graph |-> graph]
    ELSE LET edge == coupling_list[k]
             idx == ListIndex(coupling_list, edge)
         IN  IF idx > Len(cx_error_map)
             THEN [err |-> "IndexError", graph |-> graph]
             ELSE SetWeights(coupling_list, cx_error_map, k + 1,
                             [graph EXCEPT ![SortedEdge(edge[1], edge[2])] = cx_error_map[idx]])

\* lines 30-33 and 50-53
herr_noise_graph(coupling_list, cx_error_map) ==
    SetWeights(coupling_list, cx_error_map, 1, from_edgelist(coupling_list))

\* cx_error_map as extractCxErrorMap builds it: one error rate per entry of
\* the coupling list, or one short when a link has no record
ErrorMaps(coupling_list) ==
    UNION {[1..m -> ErrorRates] : m \in {Len(coupling_list) - 1, Len(coupling_list)}}

\* basis_gates of transpileUsingHerr
BasisGateSets == {<<"cx", "u3">>, <<"cx", "id", "rz", "sx", "x">>}

WrapperCalls(d) ==
    {[fn |-> "routeUsingHerr", args |-> <<d.coupling_list, m>>] :
        m \in ErrorMaps(d.coupling_list)}
    \cup {[fn |-> "transpileUsingHerr", args |-> <<d.coupling_list, m, b>>] :
            m \in ErrorMaps(d.coupling_list), b \in BasisGateSets}

\* one of the two functions is about to be called on a circuit as wide as
\* the device; no router exists yet
InitWrap ==
    /\ \E d \in Devices :
          /\ couplingMap = d.coupling_map
          /\ nq = d.coupling_map.n
          /\ tieCM \in TiePolicies({d.coupling_map.links})
          /\ tieNX \in TiePolicies(ReducedGraphs(d.coupling_map.links))
          /\ intIdentity \in IdentityPolicies(d.coupling_map.links)
          /\ call \in WrapperCalls(d)
    /\ powRounding \in PowPolicies({call.args[2][i] : i \in 1..Len(call.args[2])})
    /\ ret = None
    /\ qubitAccuracy = None
    /\ initial_layout = None
    /\ searchDepth = 0
    /\ maxLayers = MaxGates
    /\ dag = <<>>
    /\ pc = "wrapper"
    /\ error = "none"
    /\ current_layout = None
    /\ new_dag = <<>>
    /\ physQArgs = None
    /\ bestEdge = None
    /\ bestEdgeAccuracy = AccOne
    /\ foundBetterEdge = FALSE
    /\ todo = {}
    /\ baseline = AccOne
    /\ layoutAtInspect = None
    /\ outAtInspect = <<>>
    /\ branch = "none"

\* the noise graph is built and HERR(coupling_map, herr_noise_graph) is
\* constructed with its default searchDepth and no initial layout
BuildRouter(fn) ==
    /\ pc = "wrapper"
    /\ call.fn = fn
    /\ LET g == herr_noise_graph(call.args[1], call.args[2])
       IN  IF g.err # "none"
           THEN /\ Raise(g.err)
                /\ UNCHANGED <<qubitAccuracy, searchDepth>>
           ELSE /\ qubitAccuracy' = g.graph
                /\ searchDepth' = DefaultSearchDepth
                /\ pc' = "start"
                /\ UNCHANGED error
    /\ UNCHANGED <<couplingMap, initial_layout, tieCM, tieNX, intIdentity, powRounding, nq,
                   maxLayers, unit, dag, current_layout, new_dag, search, branch>>

\* lines 29-34; line 36 is the run that follows, line 37 ReturnCircuit
RouteUsingHerr == BuildRouter("routeUsingHerr")

\* lines 49-54; line 56 is the run that follows, lines 57-64 ReturnTranspiled
TranspileUsingHerr == BuildRouter("transpileUsingHerr")

\* two instructions act on a common wire
SharesWire(a, b) ==
    \E i \in 1..Len(a.wires), j \in 1..Len(b.wires) : a.wires[i] = b.wires[j]

RECURSIVE TopologicalOrders(_, _)
\* the orders of the entries `remaining` of out in which every entry comes
\* after the earlier entries it shares a wire with
TopologicalOrders(out, remaining) ==
    IF remaining = {} THEN {<<>>}
    ELSE UNION {{<<out[i]>> \o t : t \in TopologicalOrders(out, remaining \ {i})} :
                i \in {k \in remaining :
                          \A j \in remaining : j < k => ~SharesWire(out[j], out[k])}}

\* qiskit's dag_to_circuit: the instructions of the DAG in a topological
\* order; which one is the library's choice
dag_to_circuit(out) == TopologicalOrders(out, 1..Len(out))

\* line 37: routeUsingHerr returns the routed program as a circuit
ReturnCircuit ==
    /\ pc = "done"
    /\ call.fn = "routeUsingHerr"
    /\ \E circuit \in dag_to_circuit(new_dag) : ret' = [circuit |-> circuit]
    /\ pc' = "returned"
    /\ UNCHANGED <<config, call, dag, error, current_layout, new_dag, search, branch>>

\* lines 57-64: transpileUsingHerr returns what qiskit's transpile makes of
\* the routed program; the result is the library's, held as the call made
ReturnTranspiled ==
    /\ pc = "done"
    /\ call.fn = "transpileUsingHerr"
    /\ \E updated_circ \in dag_to_circuit(new_dag) :
          ret' = [transpile |-> [circuit |-> updated_circ,
                                 backend |-> "qasm_simulator",
                                 coupling_map |-> couplingMap,
                                 basis_gates |-> call.args[3],
                                 routing_method |-> "basic",
                                 layout_method |-> "trivial"]]
    /\ pc' = "returned"
    /\ UNCHANGED <<config, call, dag, error, current_layout, new_dag, search, branch>>

NextWrap ==
    \/ RouteUsingHerr
    \/ TranspileUsingHerr
    \/ ReturnCircuit
    \/ ReturnTranspiled
    \/ Start
    \/ InspectOperation
    \/ ExamineEdge
    \/ ApplyBetterLink
    \/ ApplyDirectSwap
    \/ PassThrough
    \/ SingleQubitLayer
    \/ Return

SpecWrap == InitWrap /\ [][NextWrap]_vars

----------------------------------------------------------------------------
(* Claims *)

OnLink(entry) == IsLink(couplingMap.links, entry.wires[1], entry.wires[2])

IsTwoQubitOp(entry) == entry.kind = "op" /\ Len(entry.wires) = 2

IsSwap(entry) == entry.kind = "swap"

\* C1: when the run completes, every original two-qubit operation of the
\* routed program acts on two physical qubits joined by a link.
C1_RoutedOpsOnLinks ==
    pc = "done" =>
        \A i \in 1..Len(new_dag) : IsTwoQubitOp(new_dag[i]) => OnLink(new_dag[i])

\* the last operation pulled from the input has been routed and emitted
JustRouted == pc \in {"layer", "done"} /\ branch \in {"better", "direct", "pass"}

SwapsOf(out) == SelectSeq(out, IsSwap)

\* C2: every swap of the routed program, whether from the better-link branch
\* or from the direct-connect branch, acts on two physical qubits joined by
\* a link.
C2_SwapsOnLinks ==
    \A i \in 1..Len(new_dag) : IsSwap(new_dag[i]) => OnLink(new_dag[i])

C2_Witness ==
    /\ branch = "better"
    /\ Len(SwapsOf(new_dag)) >= 2

\* physicalOf(logicalOf(p)) == p for every physical qubit p
LayoutTotal(L) ==
    \A p \in 0..(couplingMap.n - 1) :
        /\ p \in DOMAIN L.p2v
        /\ L.p2v[p] \in DOMAIN L.v2p
        /\ L.v2p[L.p2v[p]] = p

\* lines 87-91 and 117-119 have swapped the layout: a swap is composed onto
\* new_dag in the step that applies it to current_layout
SwapsApplied == current_layout # None /\ SwapsOf(new_dag) # <<>>

\* C3: in every state of a run after a layout swap the layout is a total
\* bijection, physicalOf(logicalOf(p)) == p for every physical qubit p.
C3_Original == SwapsApplied => LayoutTotal(current_layout)

OpsOf(out) == SelectSeq(out, LAMBDA e : e.kind = "op")

\* C4: the original operations of the routed program, in output order, are
\* the operations of the input in layer order: none dropped, duplicated or
\* reordered.
C4_OrderPreserved ==
    pc \in {"layer", "done"} =>
        /\ Len(OpsOf(new_dag)) = Len(dag)
        /\ \A i \in 1..Len(dag) : OpsOf(new_dag)[i].qargs = dag[i]

C4_Witness ==
    /\ pc = "done"
    /\ Len(dag) >= 2
    /\ dag[1] # dag[2]
    /\ Len(SwapsOf(new_dag)) >= 1

IsComplete(cm) ==
    \A a \in 0..(cm.n - 1), b \in 0..(cm.n - 1) : a # b => IsLink(cm.links, a, b)

UniformWeights == \A e \in DOMAIN qubitAccuracy, f \in DOMAIN qubitAccuracy :
                      qubitAccuracy[e] = qubitAccuracy[f]

\* C5 as stated: on a complete graph the router inserts no swap, whatever
\* the weights.
C5_Original == IsComplete(couplingMap) => SwapsOf(new_dag) = <<>>

\* C5 as amended: on a complete graph whose links all have the same weight
\* the router inserts no swap.
C5_NoSwapOnUniformComplete ==
    IsComplete(couplingMap) /\ UniformWeights => SwapsOf(new_dag) = <<>>

C5_Witness ==
    /\ IsComplete(couplingMap)
    /\ UniformWeights
    /\ JustRouted
    /\ pc = "done"

\* no swap for the operation, the layout unchanged, the operation emitted on
\* the physical qubits it was inspected on
PassedThroughUnchanged ==
    /\ current_layout = layoutAtInspect
    /\ Len(new_dag) = Len(outAtInspect) + 1
    /\ new_dag[Len(new_dag)].kind = "op"
    /\ new_dag[Len(new_dag)].wires = physQArgs

EndpointsAdjacent == IsLink(couplingMap.links, physQArgs[1], physQArgs[2])

\* C6 as stated: an operation whose endpoints are joined by a link gets no
\* swap, leaves the layout unchanged and is emitted on the same two qubits.
C6_Original == JustRouted /\ EndpointsAdjacent => PassedThroughUnchanged

\* C6 as amended: an operation whose endpoints are joined by a link, and
\* for which find_better_link returns None, gets no swap, leaves the layout
\* unchanged and is emitted on the same two qubits.
C6_AdjacentPassThrough ==
    JustRouted /\ EndpointsAdjacent /\ ~foundBetterEdge => PassedThroughUnchanged

C6_Witness ==
    /\ JustRouted
    /\ EndpointsAdjacent
    /\ ~foundBetterEdge
    /\ physQArgs[1] > physQArgs[2]

\* C7: whenever find_better_link has selected a link, the accuracy computed
\* for it is strictly greater than the baseline of the operation's endpoints.
C7_StrictlyBetter ==
    foundBetterEdge =>
        /\ bestEdge \in couplingMap.links
        /\ bestEdgeAccuracy # AccZero
        /\ FloatGreater(bestEdgeAccuracy[3], baseline[3])

C7_Witness ==
    /\ pc = "search"
    /\ todo = {}
    /\ foundBetterEdge

\* C8: a program with more qubits than the device fails with a
\* TranspilerError before any operation is inspected or any swap computed,
\* and no routed program is returned.
C8_TooWideFailsFirst ==
    nq > couplingMap.n =>
        /\ pc \in {"start", "failed"}
        /\ pc = "failed" => error = "TranspilerError"
        /\ dag = <<>>
        /\ new_dag = <<>>
        /\ physQArgs = None
        /\ current_layout = None

C8_Witness == error = "TranspilerError"

\* C9: with a starting layout supplied, the physical endpoints of the first
\* operation are resolved through that layout.
C9_Original ==
    initial_layout # None /\ pc = "search" /\ Len(dag) = 1 =>
        physQArgs = <<initial_layout[dag[1][1] + 1], initial_layout[dag[1][2] + 1]>>

WeakLinks == {e \in DOMAIN qubitAccuracy : qubitAccuracy[e] = WeightWeak}

UsesWeakLink(entry) ==
    /\ Len(entry.wires) = 2
    /\ SortedEdge(entry.wires[1], entry.wires[2]) \in WeakLinks

\* the ring of four with one link of weight 0.5 and three of 0.999,
\* searchDepth 2, an operation between two opposite qubits
WeakRingScenario ==
    /\ couplingMap = Ring4
    /\ nq = 4
    /\ searchDepth = 2
    /\ Cardinality(WeakLinks) = 1
    /\ \A e \in DOMAIN qubitAccuracy : qubitAccuracy[e] \in {WeightWeak, WeightStrong}
    /\ Len(dag) = 1
    /\ JustRouted
    /\ distance(physQArgs[1], physQArgs[2]) = 2

\* C10: in the weak-ring scenario neither an inserted swap nor the emitted
\* operation uses the weak link, whichever link is weak and however ties
\* between shortest paths are broken.
C10_Original ==
    WeakRingScenario => \A i \in 1..Len(new_dag) : ~UsesWeakLink(new_dag[i])

\* the entries appended to new_dag for the last operation routed
EntriesOfOperation == SubSeq(new_dag, Len(outAtInspect) + 1, Len(new_dag))

\* C11: when all links have the same weight, find_better_link never returns
\* a link, and an operation whose endpoints are d >= 1 links apart gets
\* exactly d - 1 swaps and is then emitted on two qubits joined by a link.
C11_UniformIsBasicSwap ==
    UniformWeights =>
        /\ ~foundBetterEdge
        /\ JustRouted =>
              LET d == distance(physQArgs[1], physQArgs[2])
                  entries == EntriesOfOperation
              IN  /\ branch \in {"direct", "pass"}
                  /\ Len(entries) = d
                  /\ \A i \in 1..(d - 1) : IsSwap(entries[i])
                  /\ IsTwoQubitOp(entries[d])
                  /\ OnLink(entries[d])

C11_Witness ==
    /\ UniformWeights
    /\ \A e \in DOMAIN qubitAccuracy : qubitAccuracy[e] = WeightStrong
    /\ searchDepth >= 2
    /\ JustRouted
    /\ distance(physQArgs[1], physQArgs[2]) >= 3

\* C12: for a BackendV1 device extractCxErrorMap returns one entry per entry
\* of the coupling list, in the same order, and entry idx is the error of a
\* gate record whose qubits equal coupling_map[idx].
C12_Original ==
    call # None /\ call.fn = "extractCxErrorMap" /\ ret # None /\ call.args[1] <= 1 =>
        LET gates == call.args[2]
            coupling_map == call.args[3]
        IN  /\ ret.err = "none"
            /\ Len(ret.value) = Len(coupling_map)
            /\ \A idx \in 1..Len(coupling_map) :
                  \E k \in 1..Len(gates) :
                      gates[k].qubits = coupling_map[idx] /\ gates[k].value = ret.value[idx]

\* the candidates find_better_link may consider for the operation
Eligible ==
    {e \in couplingMap.links : WithinDepth(physQArgs[1], physQArgs[2], e, searchDepth)}

\* the path accuracy of moving the operation's own endpoints onto link e
OwnAccuracy(e) == calc_path_accuracy(physQArgs, e)

\* u > v for accuracies either of which may be 0
AccAbove(u, v) == u # AccZero /\ (v = AccZero \/ AccGreater(u, v))

\* find_better_link has visited every edge and is about to return
SearchOver == pc = "search" /\ todo = {}

\* C13: find_better_link returns None when no eligible candidate has a path
\* accuracy, computed from the operation's own endpoints, strictly above
\* the baseline; otherwise it returns an eligible candidate whose path
\* accuracy is the maximum over the eligible candidates.
C13_Original ==
    SearchOver /\ (\A e \in Eligible : OwnAccuracy(e).err = "none") =>
        IF foundBetterEdge
        THEN /\ bestEdge \in Eligible
             /\ AccAbove(OwnAccuracy(bestEdge).acc, baseline)
             /\ \A e \in Eligible :
                   ~AccAbove(OwnAccuracy(e).acc, OwnAccuracy(bestEdge).acc)
        ELSE \A e \in Eligible : ~AccAbove(OwnAccuracy(e).acc, baseline)

\* the product of weight(link)^3 over every consecutive link of the path,
\* the last one included
WholePathAccuracy(path) == SwapChainAccuracy(path, 1, Len(path) - 1)

\* C14: the baseline of find_better_link for endpoints (p0, p1) is
\* weight(p0, p1) when they are joined by a link, and otherwise the product
\* of weight(link)^3 over every link of the shortest path from p0 to p1,
\* the last link included.
C14_Original ==
    pc = "search" =>
        Exact(baseline) =
            Exact(IF IsLink(couplingMap.links, physQArgs[1], physQArgs[2])
                  THEN weight(physQArgs[1], physQArgs[2])
                  ELSE WholePathAccuracy(shortest_undirected_path(physQArgs[1], physQArgs[2])))

\* the function fn has been applied and has returned
Returned(fn) == call # None /\ call.fn = fn /\ ret # None

EndsOf(e) == {e[1], e[2]}

\* exactly one of the two sources is an endpoint of the link e
OneCoincides(s, e) == (s[1] \in EndsOf(e)) # (s[2] \in EndsOf(e))

Last(path) == path[Len(path)]

\* source number `moving` (1 or 2) is the one off the link: the other gets
\* no path, and the moving one a path to the remaining endpoint, if the
\* graph without the other source has one
OneSourceAssigned(s, e, qubitPath, moving) ==
    LET staying == 3 - moving
        remaining == CHOOSE x \in EndsOf(e) : x # s[staying]
    IN  /\ qubitPath[staying] = None
        /\ find_path_excluding(s[moving], remaining, s[staying]) # None =>
              /\ qubitPath[moving] # None
              /\ qubitPath[moving][1] = s[moving]
              /\ Last(qubitPath[moving]) = remaining

\* C15: when one source already is an endpoint of the candidate link and
\* the other is not, find_shortest_path assigns no path to the first and
\* assigns the other a path that ends at the remaining endpoint, whichever
\* of the two sources has to move.
C15_Original ==
    Returned("find_shortest_path") /\ OneCoincides(call.args[1], call.args[2]) =>
        /\ ret.err = "none"
        /\ OneSourceAssigned(call.args[1], call.args[2], ret.qubitPath,
                             IF call.args[1][1] \in EndsOf(call.args[2]) THEN 2 ELSE 1)

\* neither source is an endpoint of the link e
BothMoving(s, e) == s[1] \notin EndsOf(e) /\ s[2] \notin EndsOf(e)

\* C16: when neither source is an endpoint of the candidate link, the two
\* paths find_shortest_path returns end at two different endpoints of the
\* candidate.
C16_Original ==
    Returned("find_shortest_path") /\ BothMoving(call.args[1], call.args[2])
        /\ ret.err = "none" =>
            /\ ret.qubitPath[1] # None
            /\ ret.qubitPath[2] # None
            /\ Last(ret.qubitPath[1]) # Last(ret.qubitPath[2])

\* C17: a candidate for which the path search finds no path is rejected and
\* the search goes on: no step of the loop of find_better_link ends the run
\* with an exception.
C17_Original == [][pc = "search" /\ todo # {} => pc' # "failed"]_vars

\* the physical qubits the two logical qubits of the last operation are on
OperandsAt(L) == {L.v2p[dag[Len(dag)][1]], L.v2p[dag[Len(dag)][2]]}

\* C18: when find_better_link has returned a link and run has applied the
\* swap chains of find_shortest_path for it, the two logical qubits of the
\* operation occupy the two physical qubits of that link.
C18_Original ==
    JustRouted /\ branch = "better" => OperandsAt(current_layout) = EndsOf(bestEdge)

\* how many swaps of the chain `path` cross the link e
Crossings(path, e) ==
    IF path = None THEN 0
    ELSE Cardinality({k \in 1..(Len(path) - 1) : SortedEdge(path[k], path[k + 1]) = e})

RECURSIVE SumOver(_, _)
\* the sum of f[x] over x in S
SumOver(f, S) ==
    IF S = {} THEN 0
    ELSE LET x == CHOOSE y \in S : TRUE IN f[x] + SumOver(f, S \ {x})

\* weight(a, b) times weight(link)^3 for every link crossing of the two
\* chains, as numbers of factors: the candidate once, every crossing three times
ExpectedPathAccuracy(qubitPath, e) ==
    LET links == couplingMap.links
        factors == [l \in links |->
                      3 * (Crossings(qubitPath[1], l) + Crossings(qubitPath[2], l))
                      + (IF l = SortedEdge(e[1], e[2]) THEN 1 ELSE 0)]
    IN  <<SumOver([l \in links |-> factors[l] * qubitAccuracy[l][1]], links),
          SumOver([l \in links |-> factors[l] * qubitAccuracy[l][2]], links)>>

\* C19: given a source pair and a candidate link (a, b) for which at least
\* one source is assigned a path, calc_path_accuracy returns weight(a, b)
\* multiplied by weight(link)^3 for every consecutive link of every
\* assigned path; a source without a path contributes the factor 1.
C19_PathAccuracyFormula ==
    Returned("calc_path_accuracy") =>
        LET r == find_shortest_path(call.args[1], call.args[2])
        IN  r.err = "none" /\ (r.qubitPath[1] # None \/ r.qubitPath[2] # None) =>
                /\ ret.err = "none"
                /\ Exact(ret.acc) = ExpectedPathAccuracy(r.qubitPath, call.args[2])

\* both sources move, one of them over two links or more, on links of
\* both kinds of weight
C19_Witness ==
    /\ Returned("calc_path_accuracy")
    /\ ret.err = "none"
    /\ ret.acc # AccZero
    /\ ret.acc[1] >= 3
    /\ ret.acc[2] >= 3
    /\ LET r == find_shortest_path(call.args[1], call.args[2])
       IN  /\ r.qubitPath[1] # None
           /\ r.qubitPath[2] # None
           /\ Len(r.qubitPath[1]) + Len(r.qubitPath[2]) >= 5

\* find_better_link has returned None for an operation whose endpoints are
\* more than one link apart: line 92 is reached and line 93 holds
FallbackChosen ==
    /\ pc = "search"
    /\ todo = {}
    /\ ~foundBetterEdge
    /\ distance(physQArgs[1], physQArgs[2]) > 1

\* d - 1 swaps on the first d - 1 pairs of the shortest path in path order,
\* the qubit at p1 not moved, the operation on the last link of the path
DirectChainInserted ==
    LET d == distance(physQArgs[1], physQArgs[2])
        path == shortest_undirected_path(physQArgs[1], physQArgs[2])
        entries == EntriesOfOperation
        gate == dag[Len(dag)]
    IN  /\ branch = "direct"
        /\ Len(entries) = d
        /\ \A k \in 1..(d - 1) :
              IsSwap(entries[k]) /\ entries[k].wires = <<path[k], path[k + 1]>>
        /\ current_layout.p2v[physQArgs[2]] = layoutAtInspect.p2v[physQArgs[2]]
        /\ current_layout.v2p[gate[2]] = path[d + 1]
        /\ current_layout.v2p[gate[1]] = path[d]
        /\ entries[d].kind = "op"
        /\ entries[d].wires = <<path[d], path[d + 1]>>

\* C20: when find_better_link returns None and the endpoints p0, p1 are
\* d > 1 links apart, run inserts exactly d - 1 swaps, on the first d - 1
\* consecutive pairs of the shortest path from p0 to p1 in path order; the
\* qubit at p1 is not moved, and afterwards the two logical qubits of the
\* operation sit on the two ends of the last link of the path.
C20_Original == [][FallbackChosen => DirectChainInserted']_vars

\* the physical pairs of the swaps emitted for the last operation routed
EmittedSwapPairs ==
    LET entries == EntriesOfOperation
    IN  [k \in 1..(Len(entries) - 1) |-> entries[k].wires]

\* one pair per consecutive pair of the chain, in path order
ChainPairs(path) ==
    IF path = None THEN <<>> ELSE [k \in 1..(Len(path) - 1) |-> <<path[k], path[k + 1]>>]

\* the swaps the branch taken has to make: the chain of the first source
\* and then the chain of the second, or the direct chain but its last pair
ExpectedSwapPairs ==
    IF branch = "better"
    THEN LET swapPath == find_shortest_path(physQArgs, bestEdge).qubitPath
         IN  ChainPairs(swapPath[1]) \o ChainPairs(swapPath[2])
    ELSE IF branch = "direct"
    THEN LET chain == ChainPairs(shortest_undirected_path(physQArgs[1], physQArgs[2]))
         IN  SubSeq(chain, 1, Len(chain) - 1)
    ELSE <<>>

\* C21: for every operation the physical pairs of the emitted swaps are
\* the pairs the layout was swapped on, in the same order, one per
\* consecutive pair of each assigned path, the chain of the first source
\* before the chain of the second.
C21_SwapsMatchLayout ==
    JustRouted =>
        /\ \A k \in 1..(Len(EntriesOfOperation) - 1) : IsSwap(EntriesOfOperation[k])
        /\ EmittedSwapPairs = ExpectedSwapPairs
        /\ current_layout = ApplySwaps(layoutAtInspect, EmittedSwapPairs, 1)

\* both sources moved, and the order of the swaps matters to the layout
C21_Witness ==
    /\ JustRouted
    /\ branch = "better"
    /\ LET swapPath == find_shortest_path(physQArgs, bestEdge).qubitPath
       IN  swapPath[1] # None /\ swapPath[2] # None
    /\ Len(EmittedSwapPairs) >= 2
    /\ current_layout # ApplySwaps(layoutAtInspect,
                                   [k \in 1..Len(EmittedSwapPairs) |->
                                       EmittedSwapPairs[Len(EmittedSwapPairs) + 1 - k]], 1)

\* the branch of lines 63-119 that the outcome of the search selects
BranchSelected ==
    IF foundBetterEdge THEN "better"
    ELSE IF NeedsDirectSwap(physQArgs[1], physQArgs[2]) THEN "direct"
    ELSE "pass"

\* C22: for every two-qubit operation exactly one of the three branches is
\* taken, the one the search selects; what the branch adds to the output is
\* its swaps and then the operation, behind every earlier original
\* operation; and the operation is emitted on the physical qubits the
\* layout gives its logical qubits after those swaps.
C22_BranchAndPlacement ==
    JustRouted =>
        LET entries == EntriesOfOperation
            gate == dag[Len(dag)]
        IN  /\ branch = BranchSelected
            /\ branch # "pass" \/ Len(entries) = 1
            /\ SubSeq(new_dag, 1, Len(outAtInspect)) = outAtInspect
            /\ Len(OpsOf(outAtInspect)) = Len(dag) - 1
            /\ Len(entries) >= 1
            /\ \A k \in 1..(Len(entries) - 1) : IsSwap(entries[k])
            /\ entries[Len(entries)].kind = "op"
            /\ entries[Len(entries)].qargs = gate
            /\ entries[Len(entries)].wires =
                   <<current_layout.v2p[gate[1]], current_layout.v2p[gate[2]]>>
            /\ current_layout = ApplySwaps(layoutAtInspect, EmittedSwapPairs, 1)

\* a later operation that gets swaps which move one of its own qubits, after
\* an earlier operation that was itself given swaps
C22_Witness ==
    /\ JustRouted
    /\ Len(dag) >= 2
    /\ Len(SwapsOf(outAtInspect)) >= 1
    /\ Len(EntriesOfOperation) >= 2
    /\ current_layout.v2p[dag[Len(dag)][1]] # layoutAtInspect.v2p[dag[Len(dag)][1]]

\* C23: find_better_link(p, q) and find_better_link(q, p), on the same
\* router and with uniqueEdges iterated in the same order, both return None
\* or both return the same link.
C23_Original ==
    Returned("find_better_link") =>
        LET mirrored == find_better_link(call.args[2], call.args[1], call.args[3],
                                         searchDepth)
        IN  ret.err = "none" /\ mirrored.err = "none" => ret.edge = mirrored.edge

\* the error rate the wrapper was given for an entry of the coupling list
ErrorOfEntry(k) == call.args[2][ListIndex(call.args[1], call.args[1][k])]

\* the wrapper has built the graph and constructed the router
RouterBuilt == call # None /\ call.fn \in {"routeUsingHerr", "transpileUsingHerr"}
               /\ pc \notin {"wrapper", "failed"}

\* w is one minus the error rate e: one minus 0.5 is 0.5, and one minus
\* 0.5 ** 10 lies strictly between 0.999 and 1
IsSuccessProbabilityOf(w, e) ==
    IF e = ErrorHigh THEN w = WeightWeak
    ELSE AccGreater(w, WeightStrong) /\ AccGreater(WeightOne, w)

\* C24: the weight the wrapper attaches to each link of the graph handed to
\* HERR is the link's success probability, one minus the CX error rate the
\* error map holds for the link in one of its two directions.
C24_Original ==
    RouterBuilt =>
        \A link \in couplingMap.links :
           \E k \in 1..Len(call.args[1]) :
              /\ SortedEdge(call.args[1][k][1], call.args[1][k][2]) = link
              /\ IsSuccessProbabilityOf(qubitAccuracy[link], ErrorOfEntry(k))

====
